---- MODULE Spec2Model ----
(***************************************************************************)
(* Wildcard parsing, rendering and matching (src/src/wildcard.rs).         *)
(*                                                                         *)
(* Characters are their code points; a &str is a sequence of characters.   *)
(* Every character of the alphabet is ASCII, so the byte offsets produced  *)
(* by char_indices() are the 0-based character positions.                  *)
(* An Option<T> is a sequence of length 0 (None) or 1 (Some).              *)
(***************************************************************************)
EXTENDS Integers, Sequences, FiniteSets, TLC

\* ------------------------------------------------------------------ bounds
MaxLen == 5        \* longest pattern text that is parsed
MaxPattern == 3    \* longest pattern text that is matched against subjects
MaxSubject == 1    \* longest subject, besides the pattern text itself
MaxTail == 5       \* longest text after the '[' of a text that opens with one

\* -------------------------------------------------------------- characters
NUL == 0           \* char::default()
Bang == 33         \* '!'
Star == 42         \* '*'
Dash == 45         \* '-'
Quest == 63        \* '?'
UpperJ == 74       \* 'J'
LBracket == 91     \* '['
RBracket == 93     \* ']'
LowerA == 97       \* 'a'

Alphabet == {Bang, Star, Dash, Quest, UpperJ, LBracket, RBracket, LowerA}

\* the texts of at most n characters
Strings(n) == UNION {[1..k -> Alphabet] : k \in 0..n}

\* ---------------------------------------------------------------- the AST
\* enum Production
Sequence(s) == [kind |-> "Sequence", s |-> s]
ManyOf(choices) == [kind |-> "ManyOf", choices |-> choices]
OneOf(choices) == [kind |-> "OneOf", choices |-> choices]
Not(p) == [kind |-> "Not", inner |-> p]

\* enum Choice
AnyOf(s) == [kind |-> "AnyOf", s |-> s]
Range(from, to) == [kind |-> "Range", from |-> from, to |-> to]

\* enum WildcardParseError, and the Result of run()
Running == [kind |-> "Running"]
Ok(w) == [kind |-> "Ok", value |-> w]
Incomplete == [kind |-> "Incomplete"]
InvalidCharRange(lo, hi) == [kind |-> "InvalidCharRange", lo |-> lo, hi |-> hi]

\* ------------------------------------------------------------- the parser
\* WildcardParser::new, with the locals of run() before its loop
NewParser(src) ==
    [source |-> src,
     result |-> <<>>,
     start  |-> <<>>,
     negate |-> FALSE,
     token  |-> Sequence(src),
     iter   |-> 0,
     prev   |-> <<0, NUL>>,
     ret    |-> Running,
     cuts   |-> <<>>]

\* capture with the comparison index >= start
capture_inclusive(st, index) ==
    IF st.start # <<>> /\ index >= st.start[1]
    THEN <<SubSeq(st.source, st.start[1] + 1, index)>>
    ELSE <<>>

\* WildcardParser::capture
capture(st, index) ==
    IF st.start # <<>> /\ index > st.start[1]
    THEN <<SubSeq(st.source, st.start[1] + 1, index)>>
    ELSE <<>>

\* capture, the slice &self.source[start .. index]: the bounds of every
\* slice taken are kept in cuts
slice(st, index) ==
    IF capture(st, index) # <<>>
    THEN [st EXCEPT !.cuts = Append(@, <<st.start[1], index>>)]
    ELSE st

\* push that leaves negate set
push_sticky(st, p) ==
    IF st.negate
    THEN [st EXCEPT !.result = Append(@, Not(p))]
    ELSE [st EXCEPT !.result = Append(@, p)]

\* WildcardParser::push
push(st, p) ==
    IF st.negate
    THEN [st EXCEPT !.result = Append(@, Not(p)), !.negate = FALSE]
    ELSE [st EXCEPT !.result = Append(@, p)]

\* WildcardParser::flush
flush(st, index) ==
    IF capture(st, index) # <<>>
    THEN push(slice(st, index), Sequence(capture(st, index)[1]))
    ELSE st

\* WildcardParser::reset_capture
reset_capture(st) == [st EXCEPT !.start = <<>>]

\* WildcardParser::start_capture
start_capture(st, index) == [st EXCEPT !.start = <<index>>]

\* the '*' arm without the test of the token
ArmStar_anystate(st, index) ==
    push(reset_capture(flush(st, index)), ManyOf(<<>>))

\* run(), the '*' arm
ArmStar(st, index) ==
    IF st.token.kind = "Sequence"
    THEN push(reset_capture(flush(st, index)), ManyOf(<<>>))
    ELSE st

\* the '?' arm without reset_capture
ArmQuest_noreset(st, index) ==
    IF st.token.kind = "Sequence"
    THEN push(flush(st, index), OneOf(<<>>))
    ELSE st

\* run(), the '?' arm
ArmQuest(st, index) ==
    IF st.token.kind = "Sequence"
    THEN push(reset_capture(flush(st, index)), OneOf(<<>>))
    ELSE st

\* the '[' arm that leaves the character after '[' to the next loop turn
ArmOpen_peek(st, index) ==
    IF st.token.kind = "Sequence"
    THEN LET f == [flush(st, index) EXCEPT !.token = OneOf(<<>>)]
         IN  IF f.iter >= Len(f.source)
             THEN [f EXCEPT !.ret = Incomplete]
             ELSE IF f.source[f.iter + 1] = Bang
                  THEN reset_capture([f EXCEPT !.iter = @ + 1, !.negate = TRUE])
                  ELSE reset_capture(f)
    ELSE st

\* run(), the '[' arm: the character after '[' is taken from the iterator
\* at once; the index and c of the loop are shadowed, not assigned
ArmOpen(st, index) ==
    IF st.token.kind = "Sequence"
    THEN LET f == [flush(st, index) EXCEPT !.token = OneOf(<<>>)]
         IN  IF f.iter >= Len(f.source)
             THEN [f EXCEPT !.ret = Incomplete]
             ELSE LET index2 == f.iter
                      c2 == f.source[f.iter + 1]
                      g == start_capture([f EXCEPT !.iter = @ + 1], index2)
                  IN  IF c2 = Bang
                      THEN reset_capture([g EXCEPT !.negate = TRUE])
                      ELSE g
    ELSE st

\* the '-' arm without the test c < prev.1
ArmDash_unchecked(st, index) ==
    IF st.token.kind = "OneOf"
    THEN LET cap == capture(st, st.prev[1])
             a == IF cap # <<>>
                  THEN [slice(st, st.prev[1]) EXCEPT
                           !.token.choices = Append(@, AnyOf(cap[1]))]
                  ELSE st
         IN  IF a.iter >= Len(a.source)
             THEN [a EXCEPT !.ret = Incomplete]
             ELSE LET c2 == a.source[a.iter + 1]
                      b == [a EXCEPT !.iter = @ + 1]
                  IN  [reset_capture(b) EXCEPT
                          !.token.choices = Append(@, Range(b.prev[2], c2))]
    ELSE st

\* run(), the '-' arm: both ends of the range come from prev and the
\* character taken from the iterator
ArmDash(st, index) ==
    IF st.token.kind = "OneOf"
    THEN LET cap == capture(st, st.prev[1])
             a == IF cap # <<>>
                  THEN [slice(st, st.prev[1]) EXCEPT
                           !.token.choices = Append(@, AnyOf(cap[1]))]
                  ELSE st
         IN  IF a.iter >= Len(a.source)
             THEN [a EXCEPT !.ret = Incomplete]
             ELSE LET c2 == a.source[a.iter + 1]
                      b == [a EXCEPT !.iter = @ + 1]
                  IN  IF c2 < b.prev[2]
                      THEN [b EXCEPT !.ret = InvalidCharRange(b.prev[2], c2)]
                      ELSE [reset_capture(b) EXCEPT
                               !.token.choices = Append(@, Range(b.prev[2], c2))]
    ELSE st

\* run(), the ']' arm
ArmClose(st, index) ==
    IF st.token.kind = "OneOf"
    THEN LET cap == capture(st, index)
             choices == IF cap # <<>>
                        THEN Append(st.token.choices, AnyOf(cap[1]))
                        ELSE st.token.choices
             a == [slice(st, index) EXCEPT !.token = Sequence(st.source)]
         IN  push(reset_capture(a), OneOf(choices))
    ELSE st

\* run(), the match on c
Arm(st, index, c) ==
    CASE c = Star     -> ArmStar(st, index)
      [] c = Quest    -> ArmQuest(st, index)
      [] c = LBracket -> ArmOpen(st, index)
      [] c = Dash     -> ArmDash(st, index)
      [] c = RBracket -> ArmClose(st, index)
      [] OTHER        -> st

\* run(), one turn of the while loop over char_indices()
Iteration(st) ==
    LET index == st.iter
        c == st.source[st.iter + 1]
        h == [st EXCEPT !.iter = @ + 1,
                        !.start = IF @ = <<>> THEN <<index>> ELSE @]
        a == Arm(h, index, c)
    IN  IF a.ret.kind # "Running" THEN a ELSE [a EXCEPT !.prev = <<index, c>>]

\* the code after the loop without the flush of the pending capture
Finish_noflush(st) ==
    IF st.token.kind = "Sequence"
    THEN [st EXCEPT !.ret = Ok(st.result), !.result = <<>>]
    ELSE [st EXCEPT !.ret = Incomplete]

\* run(), after the loop
Finish(st) ==
    IF st.token.kind = "Sequence"
    THEN LET f == flush(st, Len(st.source))
         IN  [f EXCEPT !.ret = Ok(f.result), !.result = <<>>]
    ELSE [st EXCEPT !.ret = Incomplete]

\* run() as a whole
RECURSIVE Loop(_)
Loop(st) ==
    IF st.ret.kind # "Running" THEN st
    ELSE IF st.iter < Len(st.source) THEN Loop(Iteration(st))
    ELSE Finish(st)

\* Wildcard::parse
parse(src) == Loop(NewParser(src)).ret

\* ----------------------------------------------------------- the renderer
RECURSIVE Concat(_)
Concat(ss) == IF ss = <<>> THEN <<>> ELSE Head(ss) \o Concat(Tail(ss))

\* Display for Wildcard, fmt_choice
fmt_choice(choice) ==
    IF choice.kind = "AnyOf" THEN choice.s
    ELSE <<choice.from, Dash, choice.to>>

\* Display for Wildcard, fmt_token
RECURSIVE fmt_token(_, _)
fmt_token(token, neg) ==
    CASE token.kind = "Sequence" -> token.s
      [] token.kind = "ManyOf" -> <<Star>>
      [] token.kind = "OneOf" /\ token.choices = <<>> -> <<Quest>>
      [] token.kind = "OneOf" /\ token.choices # <<>> ->
            <<LBracket>> \o (IF neg THEN <<Bang>> ELSE <<>>)
              \o Concat([i \in 1..Len(token.choices) |-> fmt_choice(token.choices[i])])
              \o <<RBracket>>
      [] token.kind = "Not" -> fmt_token(token.inner, TRUE)

\* Display for Wildcard, fmt
render(w) == Concat([i \in 1..Len(w) |-> fmt_token(w[i], FALSE)])

\* ------------------------------------------------------------ the matcher
\* Wildcard::matches_after: the stub of the source
matches_after(w, rest, subject) == FALSE

\* Wildcard::matches
matches(w, subject) == matches_after(w, w, subject)

\* ------------------------------------------------------- the state machine
VARIABLES
    source, result, start, negate,   \* the fields of WildcardParser
    token, iter, prev,               \* the locals of run()
    ret,                             \* what run() has returned, if it has
    cuts,                            \* the bounds of the slices capture took
    text,                            \* Option: the rendering of the Wildcard
    again,                           \* Option: the parse of that rendering
    subject, verdict                 \* a subject and Option: matches' answer

parserVars == <<source, result, start, negate, token, iter, prev, ret, cuts>>
vars == <<source, result, start, negate, token, iter, prev, ret, cuts,
          text, again, subject, verdict>>

Cur ==
    [source |-> source, result |-> result, start |-> start, negate |-> negate,
     token |-> token, iter |-> iter, prev |-> prev, ret |-> ret,
     cuts |-> cuts]

Commit(n) ==
    /\ source' = n.source
    /\ result' = n.result
    /\ start' = n.start
    /\ negate' = n.negate
    /\ token' = n.token
    /\ iter' = n.iter
    /\ prev' = n.prev
    /\ ret' = n.ret
    /\ cuts' = n.cuts

IsAt(n) ==
    /\ source = n.source
    /\ result = n.result
    /\ start = n.start
    /\ negate = n.negate
    /\ token = n.token
    /\ iter = n.iter
    /\ prev = n.prev
    /\ ret = n.ret
    /\ cuts = n.cuts

\* WildcardParser::new(source) for some pattern text
InitWith(n) ==
    /\ \E k \in 0..n : \E src \in [1..k -> Alphabet] : IsAt(NewParser(src))
    /\ text = <<>>
    /\ again = <<>>
    /\ subject = <<>>
    /\ verdict = <<>>

Init == InitWith(MaxLen)

InitMatch == InitWith(MaxPattern)

\* WildcardParser::new(source) for some pattern text that opens with '['
InitBracket ==
    /\ \E k \in 0..MaxTail : \E tail \in [1..k -> Alphabet] :
          IsAt(NewParser(<<LBracket>> \o tail))
    /\ text = <<>>
    /\ again = <<>>
    /\ subject = <<>>
    /\ verdict = <<>>

\* the next (index, c) of the iterator, when there is one
HasNext == ret.kind = "Running" /\ iter < Len(source)
NextChar == source[iter + 1]

Scan(c) ==
    /\ HasNext
    /\ NextChar = c
    /\ Commit(Iteration(Cur))
    /\ UNCHANGED <<text, again, subject, verdict>>

ScanStar == Scan(Star)
ScanQuest == Scan(Quest)
ScanOpen == Scan(LBracket)
ScanDash == Scan(Dash)
ScanClose == Scan(RBracket)
ScanOther == \E c \in Alphabet \ {Star, Quest, LBracket, Dash, RBracket} : Scan(c)

\* the iterator is exhausted: the code after the loop
EndOfInput ==
    /\ ret.kind = "Running"
    /\ iter >= Len(source)
    /\ Commit(Finish(Cur))
    /\ UNCHANGED <<text, again, subject, verdict>>

\* println!("{}", wildcard)
Display ==
    /\ ret.kind = "Ok"
    /\ text = <<>>
    /\ text' = <<render(ret.value)>>
    /\ UNCHANGED <<parserVars, again, subject, verdict>>

\* Wildcard::parse of the rendered text
Reparse ==
    /\ text # <<>>
    /\ again = <<>>
    /\ again' = <<parse(text[1])>>
    /\ UNCHANGED <<parserVars, text, subject, verdict>>

\* wildcard.matches(subject)
Match ==
    /\ ret.kind = "Ok"
    /\ verdict = <<>>
    /\ \E s \in Strings(MaxSubject) \cup {source} :
          /\ subject' = s
          /\ verdict' = <<matches(ret.value, s)>>
    /\ UNCHANGED <<parserVars, text, again>>

Next ==
    \/ ScanStar
    \/ ScanQuest
    \/ ScanOpen
    \/ ScanDash
    \/ ScanClose
    \/ ScanOther
    \/ EndOfInput
    \/ Display
    \/ Reparse

NextMatch ==
    \/ ScanStar
    \/ ScanQuest
    \/ ScanOpen
    \/ ScanDash
    \/ ScanClose
    \/ ScanOther
    \/ EndOfInput
    \/ Match

Spec == Init /\ [][Next]_vars

SpecMatch == InitMatch /\ [][NextMatch]_vars

NextScan ==
    \/ ScanStar
    \/ ScanQuest
    \/ ScanOpen
    \/ ScanDash
    \/ ScanClose
    \/ ScanOther
    \/ EndOfInput

SpecBracket == InitBracket /\ [][NextScan]_vars

\* ------------------------------------------------- vocabulary of the claims
\* the token list built so far, or returned
Produced == IF ret.kind = "Ok" THEN ret.value ELSE result

RECURSIVE Unwrap(_)
Unwrap(p) == IF p.kind = "Not" THEN Unwrap(p.inner) ELSE p

IsLiteral(p) == p.kind = "Sequence"
IsZeroChoice(p) == Unwrap(p).kind = "OneOf" /\ Unwrap(p).choices = <<>>

Ordinary == Alphabet \ {Bang, Star, Dash, Quest, LBracket, RBracket}

\* the text from position i on is a sequence of members and ranges lo-hi
\* with lo <= hi, at least one if need is set, closed by ']', and what
\* follows the ']' is canonical
RECURSIVE CanonFrom(_, _)
RECURSIVE CanonItems(_, _, _)
CanonItems(p, i, need) ==
    IF i > Len(p) THEN FALSE
    ELSE IF p[i] = RBracket THEN ~need /\ CanonFrom(p, i + 1)
    ELSE IF p[i] \notin Ordinary THEN FALSE
    ELSE IF i + 2 <= Len(p) /\ p[i + 1] = Dash
         THEN p[i + 2] \in Ordinary /\ p[i] <= p[i + 2] /\ CanonItems(p, i + 3, FALSE)
         ELSE CanonItems(p, i + 1, FALSE)

\* the text from position i on is a concatenation of literal runs, '*', '?'
\* and bracket expressions [...] / [!...]
CanonFrom(p, i) ==
    IF i > Len(p) THEN TRUE
    ELSE IF p[i] = LBracket
         THEN IF i < Len(p) /\ p[i + 1] = Bang
              THEN CanonItems(p, i + 2, TRUE)
              ELSE CanonItems(p, i + 1, TRUE)
    ELSE CanonFrom(p, i + 1)

Canonical(p) == CanonFrom(p, 1)

\* C1: for every canonical pattern text p, parse(p) succeeds and
\* render(parse(p)) is p, character for character.
C1_RoundTrip ==
    Canonical(source) =>
        /\ ret.kind \in {"Running", "Ok"}
        /\ text # <<>> => text[1] = source

\* C2: for every text p that parse accepts, with r = render(parse(p)),
\* parse(r) succeeds, yields the Pattern parse(p) yielded, and renders to r.
C2_RenderParseIdempotent ==
    again # <<>> =>
        /\ again[1].kind = "Ok"
        /\ again[1].value = ret.value
        /\ render(again[1].value) = text[1]

\* C3: a '-' met inside a bracket expression and followed by a character hi
\* below lo, the character right before the '-', makes parse fail with
\* InvalidCharRange(lo, hi).
C3_InvertedRangeRejected ==
    [][(/\ HasNext
        /\ NextChar = Dash
        /\ token.kind = "OneOf"
        /\ iter + 2 <= Len(source)
        /\ source[iter + 2] < source[iter])
       => (/\ ret'.kind = "InvalidCharRange"
           /\ ret'.lo = source[iter]
           /\ ret'.hi = source[iter + 2])]_vars

\* what a left-to-right reading of the text p from position i on finds,
\* inb telling whether position i lies inside a bracket expression:
\* open, whether the text ends inside a bracket expression; inverted,
\* whether some '-' inside a bracket expression stands between a character
\* and a lower one
RECURSIVE Reading(_, _, _)
Reading(p, i, inb) ==
    IF i > Len(p) THEN [open |-> inb, inverted |-> FALSE]
    ELSE IF ~inb
         THEN IF p[i] # LBracket THEN Reading(p, i + 1, FALSE)
              ELSE IF i = Len(p) THEN [open |-> TRUE, inverted |-> FALSE]
              ELSE Reading(p, i + 2, TRUE)
    ELSE IF p[i] = RBracket THEN Reading(p, i + 1, FALSE)
    ELSE IF p[i] # Dash THEN Reading(p, i + 1, TRUE)
    ELSE IF i = Len(p) THEN [open |-> TRUE, inverted |-> FALSE]
    ELSE LET r == Reading(p, i + 2, TRUE)
         IN  [r EXCEPT !.inverted = @ \/ p[i + 1] < p[i - 1]]

\* C4: for every text with no inverted range that ends inside a bracket
\* expression ('[' last, no closing ']', or '-' last inside a bracket),
\* parse fails with Incomplete and never returns a Pattern.
C4_TruncatedBracketIncomplete ==
    (/\ ret.kind # "Running"
     /\ Reading(source, 1, FALSE).open
     /\ ~Reading(source, 1, FALSE).inverted)
    => ret.kind = "Incomplete"

\* every Range of a choice list has from <= to
RangesOrdered(choices) ==
    \A i \in 1..Len(choices) :
        choices[i].kind = "Range" => choices[i].from <= choices[i].to

HasRange(choices) ==
    \E i \in 1..Len(choices) : choices[i].kind = "Range"

ChoicesOf(p) == IF Unwrap(p).kind = "Sequence" THEN <<>> ELSE Unwrap(p).choices

\* C5: every Range(lo, hi) of a returned Pattern, and of every choice list
\* built during a scan, has lo <= hi.
C5_RangesWellFormed ==
    /\ \A i \in 1..Len(Produced) : RangesOrdered(ChoicesOf(Produced[i]))
    /\ RangesOrdered(ChoicesOf(token))

C5_Witness ==
    /\ ret.kind = "Ok"
    /\ \E i \in 1..Len(ret.value) : HasRange(ChoicesOf(ret.value[i]))
    /\ \E i \in 1..Len(source) : source[i] = Dash

\* C6: a OneOf with no Choice is pushed only by a '?' met in
\* Literal-accumulating state, never at a closing ']'.
C6_NoEmptyClassFromBracket ==
    [][(/\ Len(result') > Len(result)
        /\ IsZeroChoice(result'[Len(result')]))
       => (HasNext /\ NextChar = Quest /\ token.kind = "Sequence")]_vars

IsSpanOf(s, src) ==
    \E i \in 1..Len(src) : \E j \in i..Len(src) : s = SubSeq(src, i, j)

\* C7: after any prefix of any input, the token list holds no two adjacent
\* Literals and no empty Literal; every Literal is a non-empty span of the
\* source.
C7_LiteralsMaximal ==
    /\ \A i \in 1..Len(Produced) :
          IsLiteral(Unwrap(Produced[i])) =>
              /\ Produced[i].kind = "Sequence"
              /\ Produced[i].s # <<>>
              /\ IsSpanOf(Produced[i].s, source)
    /\ \A i \in 1..(Len(Produced) - 1) :
          ~(IsLiteral(Unwrap(Produced[i])) /\ IsLiteral(Unwrap(Produced[i + 1])))

C7_Witness ==
    /\ ret.kind = "Ok"
    /\ Len(ret.value) >= 3
    /\ Cardinality({i \in 1..Len(ret.value) : IsLiteral(ret.value[i])}) >= 2
    /\ \E i \in 1..Len(ret.value) : IsLiteral(ret.value[i]) /\ Len(ret.value[i].s) >= 2

LiteralOnly(p) == \A i \in 1..Len(p) : p[i] \notin {Star, Quest, LBracket}

\* C8: for a text with none of '*', '?', '[', parse succeeds; the empty text
\* gives the empty Pattern, any other text one Literal spanning all of it.
C8_LiteralOnlyInput ==
    (ret.kind # "Running" /\ LiteralOnly(source)) =>
        /\ ret.kind = "Ok"
        /\ ret.value = IF source = <<>> THEN <<>> ELSE <<Sequence(source)>>

C8_Witness ==
    /\ ret.kind = "Ok"
    /\ LiteralOnly(source)
    /\ Len(source) >= 3
    /\ \E i \in 1..Len(source) : source[i] = RBracket
    /\ \E i \in 1..Len(source) : source[i] = Dash
    /\ ret.value = <<Sequence(source)>>

\* C9: matches(parse("*"), s) is true for every subject s, the empty one
\* included.
C9_StarMatchesEverything ==
    (verdict # <<>> /\ source = <<Star>>) => verdict[1] = TRUE

PlainText(p) ==
    \A i \in 1..Len(p) : p[i] \notin {Star, Quest, LBracket, RBracket, Dash}

\* C10: for a text s with none of '*', '?', '[', ']', '-', matches(parse(s), t)
\* is true for t = s and false for every other t.
C10_LiteralMatchesItself ==
    (verdict # <<>> /\ PlainText(source)) => (verdict[1] <=> subject = source)

\* the character c is a member of, or lies inside a range of, the choices
InClass(c, choices) ==
    \E i \in 1..Len(choices) :
        IF choices[i].kind = "AnyOf"
        THEN \E j \in 1..Len(choices[i].s) : choices[i].s[j] = c
        ELSE choices[i].from <= c /\ c <= choices[i].to

\* the text is one bracket expression and parses to its one class
OneBracket ==
    /\ ret.kind = "Ok"
    /\ Len(source) >= 3
    /\ source[1] = LBracket
    /\ source[Len(source)] = RBracket
    /\ Len(ret.value) = 1
    /\ Unwrap(ret.value[1]).kind = "OneOf"
    /\ Unwrap(ret.value[1]).choices # <<>>

\* C11: for a pattern that is one bracket expression, a one-character
\* subject c matches [M] exactly when c is a member of M or inside one of
\* its ranges, and [!M] exactly when it is not; a subject of another length
\* never matches.
C11_CharClassMatching ==
    (verdict # <<>> /\ OneBracket) =>
        (verdict[1] <=>
            /\ Len(subject) = 1
            /\ InClass(subject[1], Unwrap(ret.value[1]).choices)
                   # (ret.value[1].kind = "Not"))

\* the '-' of a range is next: the scan is inside a bracket expression, a
\* character hi follows the '-', and lo is the character right before it
DashOfRange ==
    /\ HasNext
    /\ NextChar = Dash
    /\ token.kind = "OneOf"
    /\ iter + 2 <= Len(source)

\* the pending capture up to but excluding the character at 0-based index i
PendingBefore(i) ==
    IF start # <<>> /\ i > start[1]
    THEN <<AnyOf(SubSeq(source, start[1] + 1, i))>>
    ELSE <<>>

\* C12: a '-' met in In-bracket state and followed by hi with lo <= hi, lo
\* being the character right before the '-' (both of them ordinary
\* characters here), first flushes the pending
\* capture short of lo as a Members choice (if non-empty) and then appends
\* exactly Range(lo, hi), also when the range starts the bracket expression
\* or follows another range.
C12_RangeConstruction ==
    [][(/\ DashOfRange
        /\ source[iter] \in Ordinary
        /\ source[iter + 2] \in Ordinary
        /\ source[iter] <= source[iter + 2])
       => (/\ ret'.kind = "Running"
           /\ token'.kind = "OneOf"
           /\ token'.choices =
                  token.choices \o PendingBefore(iter - 1)
                      \o <<Range(source[iter], source[iter + 2])>>)]_vars

\* what a left-to-right reading of the first n characters of the text p
\* finds, from position i on: inb, whether it ends inside a bracket
\* expression; neg, whether that bracket expression opened with "[!";
\* flags, for every bracket expression closed so far, in order, whether it
\* opened with "[!"
RECURSIVE BracketsRead(_, _, _, _, _, _)
BracketsRead(p, n, i, inb, neg, flags) ==
    IF i > n THEN [inb |-> inb, neg |-> neg, flags |-> flags]
    ELSE IF ~inb
         THEN IF p[i] # LBracket THEN BracketsRead(p, n, i + 1, FALSE, FALSE, flags)
              ELSE IF i = n THEN [inb |-> TRUE, neg |-> FALSE, flags |-> flags]
              ELSE BracketsRead(p, n, i + 2, TRUE, p[i + 1] = Bang, flags)
    ELSE IF p[i] = RBracket
         THEN BracketsRead(p, n, i + 1, FALSE, FALSE, Append(flags, neg))
    ELSE IF p[i] # Dash THEN BracketsRead(p, n, i + 1, TRUE, neg, flags)
    ELSE IF i = n THEN [inb |-> TRUE, neg |-> neg, flags |-> flags]
    ELSE BracketsRead(p, n, i + 2, TRUE, neg, flags)

\* the tokens that a closing ']' pushed: a negated token, or a class with
\* choices (a '?' pushes a class without any, never negated)
FromBracket(p) == p.kind = "Not" \/ (p.kind = "OneOf" /\ p.choices # <<>>)

\* for every token of w that a closing ']' pushed, in order, whether it is
\* negated
NegationsOf(w) ==
    LET b == SelectSeq(w, FromBracket)
    IN  [i \in 1..Len(b) |-> b[i].kind = "Not"]

\* C13: negate is set only while the scan is inside a bracket expression
\* that opened with "[!", and the token pushed at its ']' consumes it: a
\* negation wraps only a class, never a Literal, a Star or a negation, and
\* the k-th bracket expression is negated exactly when it opened with "[!".
C13_NegationScoped ==
    LET b == BracketsRead(source, iter, 1, FALSE, FALSE, <<>>)
    IN  ret.kind \in {"Running", "Ok"} =>
            /\ negate <=> (ret.kind = "Running" /\ b.inb /\ b.neg)
            /\ negate => token.kind = "OneOf"
            /\ \A i \in 1..Len(Produced) :
                  Produced[i].kind = "Not" => Produced[i].inner.kind = "OneOf"
            /\ NegationsOf(Produced) = b.flags

C13_Witness ==
    /\ ret.kind = "Ok"
    /\ \E i \in 1..Len(ret.value) : \E j \in (i + 1)..Len(ret.value) :
          /\ ret.value[i].kind = "Not"
          /\ ret.value[j].kind = "OneOf"
          /\ ret.value[j].choices # <<>>

\* the pending literal, which a delimiter met at 0-based index i flushes
PendingLiteral(i) ==
    IF start # <<>> /\ i > start[1]
    THEN <<Sequence(SubSeq(source, start[1] + 1, i))>>
    ELSE <<>>

\* the capture goes on, or starts, at the character read
Accumulated ==
    /\ result' = result
    /\ token' = token
    /\ start' = IF start = <<>> THEN <<iter>> ELSE start
    /\ ret'.kind = "Running"

\* C14: '*', '?' and '[' push a Star, push an AnyChar or open a bracket
\* expression only in Literal-accumulating state, after the flush of the
\* pending literal; in In-bracket state they push nothing and are
\* accumulated as members, so "[*?[]" is one class with the members "*?[".
C14_DelimitersStateDependent ==
    /\ [][(HasNext /\ NextChar \in {Star, Quest, LBracket}) =>
            IF token.kind = "OneOf" THEN Accumulated
            ELSE /\ NextChar = Star =>
                       /\ result' = result \o PendingLiteral(iter) \o <<ManyOf(<<>>)>>
                       /\ token'.kind = "Sequence"
                 /\ NextChar = Quest =>
                       /\ result' = result \o PendingLiteral(iter) \o <<OneOf(<<>>)>>
                       /\ token'.kind = "Sequence"
                 /\ NextChar = LBracket =>
                       /\ result' = result \o PendingLiteral(iter)
                       /\ token' = OneOf(<<>>)]_vars
    /\ []((source = <<LBracket, Star, Quest, LBracket, RBracket>> /\ ret.kind # "Running")
            => ret = Ok(<<OneOf(<<AnyOf(<<Star, Quest, LBracket>>)>>)>>))

C14_Witness ==
    /\ source = <<LBracket, Star, Quest, LBracket, RBracket>>
    /\ ret.kind = "Ok"
    /\ Len(ret.value) = 1
    /\ cuts = <<<<1, 4>>>>

\* C15: the character right after an opening '[' is consumed with it and is
\* never read as a delimiter: '!' only sets the negation, any other
\* character, ']' and '-' included, starts the member capture; so "[]"
\* fails with Incomplete and "[]]" is one class with the member "]".
C15_AfterOpenConsumed ==
    /\ [][(/\ HasNext
           /\ NextChar = LBracket
           /\ token.kind = "Sequence"
           /\ iter + 2 <= Len(source))
          => (/\ iter' = iter + 2
              /\ ret'.kind = "Running"
              /\ token' = OneOf(<<>>)
              /\ result' = result \o PendingLiteral(iter)
              /\ IF source[iter + 2] = Bang
                 THEN negate' /\ start' = <<>>
                 ELSE ~negate' /\ start' = <<iter + 1>>)]_vars
    /\ []((source = <<LBracket, RBracket>> /\ ret.kind # "Running")
            => ret = Incomplete)
    /\ []((source = <<LBracket, RBracket, RBracket>> /\ ret.kind # "Running")
            => ret = Ok(<<OneOf(<<AnyOf(<<RBracket>>)>>)>>))
    /\ []((source = <<LBracket, Dash, RBracket>> /\ ret.kind # "Running")
            => ret = Ok(<<OneOf(<<AnyOf(<<Dash>>)>>)>>))

C15_Witness ==
    /\ source = <<LBracket, RBracket, RBracket>>
    /\ ret.kind = "Ok"
    /\ Len(ret.value) = 1
    /\ cuts = <<<<1, 2>>>>

BracketFree(p) == \A i \in 1..Len(p) : p[i] # LBracket

\* C16: for every text with no '[', parse succeeds with Literal, Star and
\* AnyChar tokens only, and their renderings in order make up the text
\* exactly: no character is dropped, duplicated or reordered.
C16_BracketFreeRoundTrip ==
    (BracketFree(source) /\ ret.kind # "Running") =>
        /\ ret.kind = "Ok"
        /\ \A i \in 1..Len(ret.value) :
              \/ ret.value[i].kind = "Sequence"
              \/ ret.value[i] = ManyOf(<<>>)
              \/ ret.value[i] = OneOf(<<>>)
        /\ text # <<>> => text[1] = source

C16_Witness ==
    /\ BracketFree(source)
    /\ text = <<source>>
    /\ Len(source) = MaxLen
    /\ \E i \in 1..(Len(source) - 1) :
          source[i] \in {Star, Quest} /\ source[i + 1] \in {Star, Quest}
    /\ \E i \in 1..Len(source) : source[i] = RBracket
    /\ \E i \in 1..Len(source) : source[i] = Dash

\* C17: the scan is one pass that ends: every loop turn takes one or two
\* characters from the iterator and never more than the text holds, the
\* code after the loop returns, what is returned is Ok, Incomplete or
\* InvalidCharRange and stays, Ok comes only with the whole text read, and
\* every slice taken has start < end <= length of the source.
C17_ParseTotal ==
    /\ [][ret.kind = "Running" =>
             \/ HasNext /\ iter' \in {iter + 1, iter + 2} /\ iter' <= Len(source)
             \/ ~HasNext /\ iter' = iter /\ ret'.kind # "Running"]_parserVars
    /\ [][ret.kind # "Running" => ret' = ret]_parserVars
    /\ [](ret.kind \in {"Running", "Ok", "Incomplete", "InvalidCharRange"})
    /\ [](ret.kind = "Ok" => iter = Len(source))
    /\ [](iter <= Len(source))
    /\ [](\A i \in 1..Len(cuts) :
             cuts[i][1] < cuts[i][2] /\ cuts[i][2] <= Len(source))

C17_Witness ==
    /\ ret.kind = "Ok"
    /\ Len(source) = MaxLen
    /\ Len(cuts) >= 2
    /\ \E i \in 1..Len(cuts) : cuts[i][2] = Len(source)
====
